---- MODULE Spec2Model ----
(***************************************************************************)
(* Model of the user-management routes in app/routers/user_routes.py:      *)
(* the public search (GET /users), the authenticated listing (GET          *)
(* /users/), user creation and registration, and login.                    *)
(*                                                                         *)
(* Text values are sequences of one-character strings, so that lengths,    *)
(* slices, padding, case folding and comparison are computed as the code   *)
(* and the database compute them.  NULL stands for Python's None and for a *)
(* database NULL: a one-element sequence whose element is no character.    *)
(***************************************************************************)
EXTENDS Integers, Sequences, FiniteSets

VARIABLES
    users,       \* the user table: a set of user rows
    nullsLow,    \* whether the database sorts NULL below every value (else above)
    resp,        \* the response of the search / listing request being served
    nick,        \* argument and result of a call of _safe_nick
    sess,        \* a client walking the pages 1, 2, 3, ... of one search
    reqs         \* the create_user / register / login requests in flight

vars == <<users, nullsLow, resp, nick, sess, reqs>>

NULL == <<"None">>

----------------------------------------------------------------------------
(* Bounds of the model. *)

MaxUsers == 3       \* rows in the user table
MaxPage == 3        \* largest page number requested
MaxSize == 2        \* largest small page size requested (100 and 101 are also tried)
MaxNickLen == 4     \* longest nickname passed to _safe_nick
MaxReqs == 2        \* concurrent create_user / register / login requests
MaxAttempts == 2    \* failed logins after which an account is locked

(* Program constants. *)

SizeLimit == 100    \* size: Query(10, ge=1, le=100)
MinNickLen == 3     \* _safe_nick: len(s) >= 3, (s + "___")[:3]

----------------------------------------------------------------------------
(* Text helpers. *)

UpperChars == <<"A", "B", "C", "D", "E", "F", "G", "H", "I", "J", "K", "L", "M",
                "N", "O", "P", "Q", "R", "S", "T", "U", "V", "W", "X", "Y", "Z">>
LowerChars == <<"a", "b", "c", "d", "e", "f", "g", "h", "i", "j", "k", "l", "m",
                "n", "o", "p", "q", "r", "s", "t", "u", "v", "w", "x", "y", "z">>

\* The characters in code-point order: the database's default (binary)
\* comparison of text.
CodeOrder == <<".", "@">> \o UpperChars \o <<"_">> \o LowerChars

CharCode(c) == CHOOSE i \in 1..Len(CodeOrder) : CodeOrder[i] = c

LowerChar(c) ==
    IF \E i \in 1..Len(UpperChars) : UpperChars[i] = c
    THEN LowerChars[CHOOSE i \in 1..Len(UpperChars) : UpperChars[i] = c]
    ELSE c

Lower(s) == [i \in 1..Len(s) |-> LowerChar(s[i])]

\* s[:n] of Python.
Prefix(s, n) == SubSeq(s, 1, IF Len(s) < n THEN Len(s) ELSE n)

RECURSIVE SeqsUpTo(_, _)
SeqsUpTo(S, n) ==
    IF n = 0 THEN {<<>>}
    ELSE LET shorter == SeqsUpTo(S, n - 1)
         IN  shorter \cup {Append(s, c) : s \in shorter, c \in S}

----------------------------------------------------------------------------
(* _safe_nick, the nickname padding of the public projection. *)

_safe_nick_pad2(s) ==
    LET t == IF s = NULL THEN <<>> ELSE s
    IN  IF Len(t) >= MinNickLen THEN t ELSE Prefix(t \o <<"_", "_">>, MinNickLen)

_safe_nick(s) ==
    LET t == IF s = NULL THEN <<>> ELSE s
    IN  IF Len(t) >= MinNickLen THEN t ELSE Prefix(t \o <<"_", "_", "_">>, MinNickLen)

----------------------------------------------------------------------------
(* The user table. *)

\* An absent role parameter (role: Optional[UserRole] = None).
NoRole == "None"

\* A row of the user table (app.models.user_model.User, as the routes and
\* the tests use it).
User(id, email, nickname, first_name, last_name, bio, role, created_at) ==
    [id |-> id, email |-> email, nickname |-> nickname,
     first_name |-> first_name, last_name |-> last_name, bio |-> bio,
     profile_picture_url |-> NULL, github_profile_url |-> NULL,
     linkedin_profile_url |-> NULL, role |-> role, is_professional |-> FALSE,
     created_at |-> created_at, password |-> <<"s">>,
     failed_login_attempts |-> 0, is_locked |-> FALSE]

\* Rows the table is filled from: e-mails, ids and non-NULL nicknames are
\* unique; last_name, created_at and NULL values repeat; "py" occurs in two
\* bios in different case.
UserPool ==
    { User(1, <<"j", "o", "@", "x">>, <<"j", "o">>, <<"J", "o", "h", "n">>,
           <<"A", "l", "p", "h", "a">>, <<"p", "y", "t", "h", "o", "n">>,
           "AUTHENTICATED", 1),
      User(2, <<"j", "a", "@", "x">>, <<"j", "a", "n", "e">>, <<"J", "a", "n", "e">>,
           <<"B", "e", "t", "a">>, <<"g", "o", "l", "a", "n", "g">>,
           "AUTHENTICATED", 1),
      User(3, <<"a", "d", "@", "x">>, NULL, NULL, NULL, NULL, "ADMIN", 2),
      User(4, <<"u", "s", "@", "x">>, <<>>, <<"A", "n", "n">>,
           <<"A", "l", "p", "h", "a">>, <<"P", "Y", "T", "H", "O", "N">>,
           "ADMIN", 3),
      User(5, <<"b", "o", "@", "x">>, <<"a", "b", "c">>, <<"B", "o">>, NULL, NULL,
           "MANAGER", 2) }

Stores == {s \in SUBSET UserPool : Cardinality(s) <= MaxUsers}

----------------------------------------------------------------------------
(* search_users (app.services.user_service): filter, count, order, page. *)

\* text occurs in field as a substring, ignoring case; a NULL field has no
\* characters.
IContains(field, text) ==
    LET f == IF field = NULL THEN <<>> ELSE Lower(field)
        t == Lower(text)
    IN  \E i \in 1..(Len(f) + 1) :
            i + Len(t) - 1 <= Len(f) /\ SubSeq(f, i, i + Len(t) - 1) = t

\* The free-text group (OR over the four fields) AND the role group.
Retained(u, q, role) ==
    /\ q = NULL \/ IContains(u.email, q) \/ IContains(u.first_name, q)
                \/ IContains(u.last_name, q) \/ IContains(u.bio, q)
    /\ role = NoRole \/ u.role = role

SortFields == {"created_at", "email", "nickname", "last_name"}
SortOrders == {"asc", "desc"}

RECURSIVE TextLE(_, _)
TextLE(a, b) ==
    IF a = <<>> THEN TRUE
    ELSE IF b = <<>> THEN FALSE
    ELSE IF a[1] = b[1] THEN TextLE(Tail(a), Tail(b))
    ELSE CharCode(a[1]) < CharCode(b[1])

\* The database's comparison of two values of one column; NULL sorts below
\* or above every value, as the database at hand does.
KeyLE(sort, a, b) ==
    IF sort = "created_at" THEN a <= b
    ELSE IF a = NULL /\ b = NULL THEN TRUE
    ELSE IF a = NULL THEN nullsLow
    ELSE IF b = NULL THEN ~nullsLow
    ELSE TextLE(a, b)

RECURSIVE Perms(_)
Perms(S) ==
    IF S = {} THEN {<<>>}
    ELSE UNION {{<<x>> \o p : p \in Perms(S \ {x})} : x \in S}

\* The sequences ORDER BY may return: rows with equal keys come in any order.
Orderings(rows, sort, order) ==
    {o \in Perms(rows) :
        \A i, j \in 1..Len(o) :
            i < j => IF order = "asc" THEN KeyLE(sort, o[i][sort], o[j][sort])
                                      ELSE KeyLE(sort, o[j][sort], o[i][sort])}

\* OFFSET offset LIMIT limit.
Slice(o, offset, limit) ==
    IF offset >= Len(o) THEN <<>>
    ELSE SubSeq(o, offset + 1, IF offset + limit < Len(o) THEN offset + limit ELSE Len(o))

\* The results search_users may return, as records (items, total).
search_users(db, q, role, page, size, sort, order) ==
    LET kept == {u \in db : Retained(u, q, role)}
    IN  {[items |-> Slice(o, (page - 1) * size, size), total |-> Cardinality(kept)] :
            o \in Orderings(kept, sort, order)}

----------------------------------------------------------------------------
(* GET /users: public_search_users. *)

NoResp == [kind |-> "none"]

\* Query(1, ge=1), Query(10, ge=1, le=100) and the two patterns.
ValidQuery(page, size, sort, order) ==
    /\ page >= 1
    /\ size >= 1 /\ size <= SizeLimit
    /\ sort \in SortFields
    /\ order \in SortOrders

SearchCall_swapped(db, q, role, page, size, sort, order) ==
    search_users(db, q, role, size, page, sort, order)

SearchCall_norole(db, q, role, page, size, sort, order) ==
    search_users(db, q, NoRole, page, size, sort, order)

SearchCall_offbyone(db, q, role, page, size, sort, order) ==
    search_users(db, q, role, page + 1, size, sort, order)

SearchCall_firstpage(db, q, role, page, size, sort, order) ==
    search_users(db, q, role, 1, size, sort, order)

\* items, total = await search_users(db, q=q, role=role, page=page, ...)
SearchCall(db, q, role, page, size, sort, order) ==
    search_users(db, q, role, page, size, sort, order)

\* The dictionary handed to UserResponse.model_validate for one row.
PublicView(u) ==
    [id |-> u.id, email |-> u.email, nickname |-> _safe_nick(u.nickname),
     first_name |-> u.first_name, last_name |-> u.last_name, bio |-> u.bio,
     profile_picture_url |-> u.profile_picture_url,
     github_profile_url |-> u.github_profile_url,
     linkedin_profile_url |-> u.linkedin_profile_url,
     role |-> u.role, is_professional |-> u.is_professional]

SearchResponse_len_total(items, total, page, size) ==
    [items |-> items, total |-> Len(items), page |-> page, size |-> size]

SearchResponse_len_size(items, total, page, size) ==
    [items |-> items, total |-> total, page |-> page, size |-> Len(items)]

\* return {"items": payload_items, "total": total, "page": page, "size": size}
SearchResponse(items, total, page, size) ==
    [items |-> items, total |-> total, page |-> page, size |-> size]

\* The responses the handler may give to one request.
public_search_users(db, rq) ==
    IF ~ValidQuery(rq.page, rq.size, rq.sort, rq.order)
    THEN {[kind |-> "public", req |-> rq, status |-> 422,
           body |-> [detail |-> "validation error"]]}
    ELSE {[kind |-> "public", req |-> rq, status |-> 200,
           body |-> SearchResponse([i \in 1..Len(r.items) |-> PublicView(r.items[i])],
                                   r.total, rq.page, rq.size)] :
            r \in SearchCall(db, rq.q, rq.role, rq.page, rq.size, rq.sort, rq.order)}

\* The request parameters tried: the valid ones, and one request for each
\* way of failing the validation.
QInputs == {NULL, <<"p", "y">>, <<"A", "L">>, <<"a", "n">>, <<"o", "@">>}
RoleInputs == {NoRole, "ADMIN"}
PageInputs == 1..MaxPage
SizeInputs == (1..MaxSize) \cup {SizeLimit}

DefaultRequest ==
    [q |-> NULL, role |-> NoRole, page |-> 1, size |-> 10, sort |-> "created_at",
     order |-> "desc"]

SearchRequests ==
    [q : QInputs, role : RoleInputs, page : PageInputs, size : SizeInputs,
     sort : SortFields, order : SortOrders]
    \cup {[DefaultRequest EXCEPT !.page = 0], [DefaultRequest EXCEPT !.size = 0],
          [DefaultRequest EXCEPT !.size = SizeLimit + 1],
          [DefaultRequest EXCEPT !.sort = "id"], [DefaultRequest EXCEPT !.order = "up"]}

PublicSearch ==
    /\ resp = NoResp
    /\ \E rq \in SearchRequests : resp' \in public_search_users(users, rq)
    /\ UNCHANGED <<users, nullsLow, nick, sess, reqs>>

----------------------------------------------------------------------------
(* GET /users/: admin_list_users. *)

\* The fields of UserResponse (app.schemas.user_schemas): the keys the public
\* search hands to UserResponse.model_validate.
UserResponseFields ==
    {"id", "email", "nickname", "first_name", "last_name", "bio",
     "profile_picture_url", "github_profile_url", "linkedin_profile_url",
     "role", "is_professional"}

\* The schema's minimum nickname length, which _safe_nick exists to satisfy;
\* the field is optional.
NicknameValid(n) == n = NULL \/ Len(n) >= MinNickLen

AdminView_padded(u) ==
    [f \in UserResponseFields |-> IF f = "nickname" THEN _safe_nick(u[f]) ELSE u[f]]

\* UserResponse.model_validate(u, from_attributes=True): each field of the
\* schema read from the row.
AdminView(u) == [f \in UserResponseFields |-> u[f]]

\* UserService.count and UserService.list_users: no order is requested, so
\* the rows come in any order.
count(db) == Cardinality(db)
list_users(db, skip, limit) == {Slice(o, skip, limit) : o \in Perms(db)}

\* require_role(["ADMIN", "MANAGER"])
AdminRoles == {"ADMIN", "MANAGER"}

\* The responses the handler may give to one request.
admin_list_users(db, rq) ==
    IF rq.caller \notin AdminRoles
    THEN {[kind |-> "admin", req |-> rq, status |-> 403,
           body |-> [detail |-> "Operation not permitted"]]}
    ELSE {IF \E i \in 1..Len(us) : ~NicknameValid(us[i].nickname)
          THEN [kind |-> "admin", req |-> rq, status |-> 500, rows |-> us,
                body |-> [detail |-> "ValidationError"]]
          ELSE IF rq.limit = 0
          THEN [kind |-> "admin", req |-> rq, status |-> 500, rows |-> us,
                body |-> [detail |-> "ZeroDivisionError"]]
          ELSE [kind |-> "admin", req |-> rq, status |-> 200, rows |-> us,
                body |-> [items |-> [i \in 1..Len(us) |-> AdminView(us[i])],
                          total |-> count(db),
                          page |-> (rq.skip \div rq.limit) + 1,
                          size |-> Len(us)]] :
            us \in list_users(db, rq.skip, rq.limit)}

ListRequests ==
    [caller : {"ADMIN", "MANAGER", "AUTHENTICATED"}, skip : 0..MaxSize, limit : 0..MaxSize]

AdminList ==
    /\ resp = NoResp
    /\ \E rq \in ListRequests : resp' \in admin_list_users(users, rq)
    /\ UNCHANGED <<users, nullsLow, nick, sess, reqs>>

\* The response is sent and the request is over.
SendResponse ==
    /\ resp # NoResp
    /\ resp' = NoResp
    /\ UNCHANGED <<users, nullsLow, nick, sess, reqs>>

NoNick == [in |-> NULL, out |-> NULL, called |-> FALSE]
NoSess == [active |-> FALSE]
NoReqs == <<>>

InitSearch ==
    /\ users \in Stores
    /\ nullsLow \in BOOLEAN
    /\ resp = NoResp
    /\ nick = NoNick
    /\ sess = NoSess
    /\ reqs = NoReqs

NextSearch == PublicSearch \/ AdminList \/ SendResponse

SpecSearch == InitSearch /\ [][NextSearch]_vars

----------------------------------------------------------------------------
(* Properties of the public search and of the listing, under SpecSearch. *)

PublicOK == resp.kind = "public" /\ resp.status = 200
AdminOK == resp.kind = "admin" /\ resp.status = 200

\* The rows of the table that pass the filter of the request being served.
Kept == {u \in users : Retained(u, resp.req.q, resp.req.role)}

\* The row an item was made from.
RowOf(item) == CHOOSE u \in users : u.id = item.id

\* C1: whenever the public search answers a valid request (page >= 1,
\* 1 <= size <= 100), the list of items is at most size long.
C1_ItemsAtMostSize ==
    PublicOK => Len(resp.body.items) <= resp.req.size

\* A full page with more matching rows behind it.
C1_Witness ==
    /\ PublicOK
    /\ Len(resp.body.items) = resp.req.size
    /\ Cardinality(Kept) > resp.req.size

\* C2: the total of a search response is the number of rows that pass the
\* filter, whatever the page and the size.
C2_TotalIsFilteredCount ==
    PublicOK => resp.body.total = Cardinality(Kept)

\* A later page that shows fewer rows than the filter keeps.
C2_Witness ==
    /\ PublicOK
    /\ resp.req.page >= 2
    /\ resp.req.q # NULL
    /\ Len(resp.body.items) >= 1
    /\ resp.body.total > Len(resp.body.items)
    /\ resp.body.total < Cardinality(users)

\* The filter as the claim words it: the text, ignoring case, is a substring
\* of one of the four fields (a NULL field is the empty string), and the role
\* is the requested one.
C3_TextIn(field, text) ==
    LET f == IF field = NULL THEN <<>> ELSE field
    IN  \E k \in 0..Len(f) :
           /\ k + Len(text) <= Len(f)
           /\ \A i \in 1..Len(text) : LowerChar(f[k + i]) = LowerChar(text[i])

C3_Keeps(u, q, role) ==
    /\ q = NULL \/ \E f \in {"email", "first_name", "last_name", "bio"} : C3_TextIn(u[f], q)
    /\ role = NoRole \/ u.role = role

\* C3: every item returned is a row that the filter keeps, a first page large
\* enough for the whole table holds every row the filter keeps, and with the
\* role filter ADMIN every item has role ADMIN.
C3_RetainedIff ==
    PublicOK =>
        /\ \A i \in 1..Len(resp.body.items) :
              C3_Keeps(RowOf(resp.body.items[i]), resp.req.q, resp.req.role)
        /\ (resp.req.page = 1 /\ resp.req.size >= Cardinality(users)) =>
              {resp.body.items[i].id : i \in 1..Len(resp.body.items)}
                  = {u.id : u \in {v \in users : C3_Keeps(v, resp.req.q, resp.req.role)}}
        /\ resp.req.role = "ADMIN" =>
              \A i \in 1..Len(resp.body.items) : resp.body.items[i].role = "ADMIN"

\* Text and role filter together: a row found only by folding case is kept,
\* one row fails the role alone and another fails the text alone.
C3_Witness ==
    /\ PublicOK
    /\ resp.req.q = <<"p", "y">> /\ resp.req.role = "ADMIN"
    /\ \E i \in 1..Len(resp.body.items) : resp.body.items[i].bio = <<"P", "Y", "T", "H", "O", "N">>
    /\ \E u \in users : u.role # "ADMIN" /\ C3_TextIn(u.bio, resp.req.q)
    /\ \E u \in users : u.role = "ADMIN" /\ ~C3_Keeps(u, resp.req.q, NoRole)

\* C5: a page that starts at or after the end of the filtered rows is
\* answered, with no items and with the total that page 1 of the same request
\* reports.
C5_BeyondLastPage ==
    (resp.kind = "public" /\ ValidQuery(resp.req.page, resp.req.size, resp.req.sort, resp.req.order)
       /\ (resp.req.page - 1) * resp.req.size >= Cardinality(Kept)) =>
        /\ resp.status = 200
        /\ resp.body.items = <<>>
        /\ \A first \in public_search_users(users, [resp.req EXCEPT !.page = 1]) :
              first.body.total = resp.body.total

\* A page beyond the last one of a filter that keeps some rows.
C5_Witness ==
    /\ PublicOK
    /\ Cardinality(Kept) >= 2
    /\ (resp.req.page - 1) * resp.req.size >= Cardinality(Kept)
    /\ resp.body.items = <<>>

\* C8: the response repeats the page and the size of the request.
C8_EchoesPaging ==
    PublicOK => resp.body.page = resp.req.page /\ resp.body.size = resp.req.size

\* A short page and an empty page, both with the requested size.
C8_Witness ==
    /\ PublicOK
    /\ resp.req.page >= 2
    /\ Len(resp.body.items) >= 1
    /\ Len(resp.body.items) < resp.req.size
    /\ resp.body.size = resp.req.size

ProfileUrlFields == {"profile_picture_url", "github_profile_url", "linkedin_profile_url"}

\* The listing request was let in and its page number can be computed.
AdminServed ==
    resp.kind = "admin" /\ resp.req.caller \in AdminRoles /\ resp.req.limit > 0

----------------------------------------------------------------------------
(* _safe_nick on its own: every nickname over a small alphabet, and None. *)

NickChars == {"a", "b", "_"}
NickInputs == {NULL} \cup SeqsUpTo(NickChars, MaxNickLen)

CallSafeNick ==
    /\ ~nick.called
    /\ nick' = [in |-> nick.in, out |-> _safe_nick(nick.in), called |-> TRUE]
    /\ UNCHANGED <<users, nullsLow, resp, sess, reqs>>

InitNick ==
    /\ users = {}
    /\ nullsLow = TRUE
    /\ resp = NoResp
    /\ nick \in {[in |-> n, out |-> NULL, called |-> FALSE] : n \in NickInputs}
    /\ sess = NoSess
    /\ reqs = NoReqs

NextNick == CallSafeNick

SpecNick == InitNick /\ [][NextNick]_vars

\* The characters of a nickname argument: None has none.
NickText == IF nick.in = NULL THEN <<>> ELSE nick.in

\* C6: the result of _safe_nick has at least 3 characters; an argument with
\* fewer than 3 characters (or None) gives exactly 3: the argument followed by
\* "_"; an argument with 3 characters or more is returned unchanged.
C6_SafeNick ==
    nick.called =>
        /\ Len(nick.out) >= 3
        /\ Len(NickText) < 3 =>
              /\ Len(nick.out) = 3
              /\ \A i \in 1..3 :
                    nick.out[i] = IF i <= Len(NickText) THEN NickText[i] ELSE "_"
        /\ Len(NickText) >= 3 => nick.out = nick.in
        /\ nick.in = <<>> => nick.out = <<"_", "_", "_">>
        /\ nick.in = NULL => nick.out = <<"_", "_", "_">>
        /\ nick.in = <<"a", "b">> => nick.out = <<"a", "b", "_">>

\* "ab" has been padded to "ab_".
C6_Witness ==
    nick.called /\ nick.in = <<"a", "b">> /\ nick.out = <<"a", "b", "_">>

----------------------------------------------------------------------------
(* A client that reads one search page by page: page 1, 2, 3, ... of the    *)
(* same request, each a separate call of GET /users, until the pages seen   *)
(* cover the total.                                                         *)

SessionRequests ==
    [q : {NULL, <<"p", "y">>}, role : RoleInputs, page : {1}, size : 1..MaxSize,
     sort : SortFields, order : SortOrders]

\* The next page is requested and its items' ids are noted.
FetchPage ==
    /\ sess.active /\ ~sess.done
    /\ LET page == Len(sess.pages) + 1
       IN  \E r \in public_search_users(users, [sess.req EXCEPT !.page = page]) :
              sess' = [sess EXCEPT
                          !.pages = Append(@, [i \in 1..Len(r.body.items) |->
                                                  r.body.items[i].id]),
                          !.done = (page * sess.req.size >= r.body.total)]
    /\ UNCHANGED <<users, nullsLow, resp, nick, reqs>>

InitPaging ==
    /\ users \in Stores
    /\ nullsLow \in BOOLEAN
    /\ resp = NoResp
    /\ nick = NoNick
    /\ sess \in {[active |-> TRUE, req |-> rq, pages |-> <<>>, done |-> FALSE] :
                    rq \in SessionRequests}
    /\ reqs = NoReqs

NextPaging == FetchPage

SpecPaging == InitPaging /\ [][NextPaging]_vars

\* The rows that pass the filter of the session's request.
SessKept == {u \in users : Retained(u, sess.req.q, sess.req.role)}

RECURSIVE Flatten(_)
Flatten(ss) == IF ss = <<>> THEN <<>> ELSE Head(ss) \o Flatten(Tail(ss))

\* The ids seen so far, page after page.
SeenIds == Flatten(sess.pages)

\* No id was seen twice, and once the last page is read every kept row was seen.
PagesPartition ==
    /\ \A i, j \in 1..Len(SeenIds) : i # j => SeenIds[i] # SeenIds[j]
    /\ sess.done => {SeenIds[i] : i \in 1..Len(SeenIds)} = {u.id : u \in SessKept}

\* Page p holds the rows from offset (p - 1) * size on, at most size of them.
PageLengths ==
    \A p \in 1..Len(sess.pages) :
        LET rest == Cardinality(SessKept) - (p - 1) * sess.req.size
        IN  Len(sess.pages[p]) =
                IF rest <= 0 THEN 0 ELSE IF rest < sess.req.size THEN rest ELSE sess.req.size

\* No two kept rows have the same value in the sort field.
NoTies == \A u, v \in SessKept : u # v => u[sess.req.sort] # v[sess.req.sort]

\* C4 as claimed: the pages are pairwise disjoint and together hold every
\* kept row exactly once, also when rows have equal sort values.
C4_PagesPartitionAlways == PagesPartition /\ PageLengths

\* C4 as amended: every page has the length its offset and the size give it;
\* when no two kept rows have the same value in the sort field, the pages
\* are pairwise disjoint and together hold every kept row exactly once.
C4_PagesPartitionNoTies == PageLengths /\ (NoTies => PagesPartition)

\* Three rows read to the end over at least two pages, without ties.
C4_Witness ==
    /\ sess.active /\ sess.done
    /\ NoTies
    /\ Cardinality(SessKept) >= 3
    /\ Len(sess.pages) >= 2

----------------------------------------------------------------------------
(* Requests that run concurrently: a handler runs up to its next await, and *)
(* other requests run in between.                                           *)

ReqIds == 1..MaxReqs

IdleReq ==
    [op |-> "idle", pc |-> "idle", email |-> NULL, password |-> NULL,
     locked_seen |-> FALSE, status |-> 0, detail |-> "", token |-> NULL]

Done(rq, status, detail) == [rq EXCEPT !.pc = "done", !.status = status, !.detail = detail]

\* UserService.get_by_email: the rows with that e-mail.
get_by_email(db, email) == {u \in db : u.email = email}

\* UserService.create and UserService.register_user: the row inserted, or
\* no row where the service returns None: e-mail is a unique column, so a
\* second row with a stored e-mail is not inserted.
create(db, email) ==
    IF get_by_email(db, email) # {} THEN {}
    ELSE {User(Cardinality(db) + 1, email, NULL, NULL, NULL, NULL,
               "AUTHENTICATED", Cardinality(db) + 1)}

register_user(db, email) == create(db, email)

----------------------------------------------------------------------------
(* POST /users/ (create_user) and POST /register/ (register). *)

NewEmails == {<<"j", "o", "@", "x">>, <<"j", "a", "@", "x">>}

CreateUserBegin(r) ==
    /\ reqs[r].pc = "idle"
    /\ \E e \in NewEmails :
          reqs' = [reqs EXCEPT ![r] = [IdleReq EXCEPT !.op = "create_user",
                                                      !.pc = "lookup", !.email = e]]
    /\ UNCHANGED <<users, nullsLow, resp, nick, sess>>

\* existing_user = await UserService.get_by_email(db, user.email)
CreateUserLookup(r) ==
    /\ reqs[r].op = "create_user" /\ reqs[r].pc = "lookup"
    /\ reqs' = [reqs EXCEPT ![r] =
                  IF get_by_email(users, reqs[r].email) # {}
                  THEN Done(@, 400, "Email already exists")
                  ELSE [@ EXCEPT !.pc = "create"]]
    /\ UNCHANGED <<users, nullsLow, resp, nick, sess>>

\* created_user = await UserService.create(db, user.model_dump(), email_service)
CreateUserCreate(r) ==
    /\ reqs[r].op = "create_user" /\ reqs[r].pc = "create"
    /\ LET created == create(users, reqs[r].email)
       IN  IF created = {}
           THEN /\ reqs' = [reqs EXCEPT ![r] = Done(@, 500, "Failed to create user")]
                /\ users' = users
           ELSE /\ reqs' = [reqs EXCEPT ![r] = Done(@, 201, "")]
                /\ users' = users \cup created
    /\ UNCHANGED <<nullsLow, resp, nick, sess>>

RegisterBegin(r) ==
    /\ reqs[r].pc = "idle"
    /\ \E e \in NewEmails :
          reqs' = [reqs EXCEPT ![r] = [IdleReq EXCEPT !.op = "register",
                                                      !.pc = "register", !.email = e]]
    /\ UNCHANGED <<users, nullsLow, resp, nick, sess>>

\* user = await UserService.register_user(session, user_data.model_dump(), ...)
Register(r) ==
    /\ reqs[r].op = "register" /\ reqs[r].pc = "register"
    /\ LET registered == register_user(users, reqs[r].email)
       IN  IF registered = {}
           THEN /\ reqs' = [reqs EXCEPT ![r] = Done(@, 400, "Email already exists")]
                /\ users' = users
           ELSE /\ reqs' = [reqs EXCEPT ![r] = Done(@, 200, "")]
                /\ users' = users \cup registered
    /\ UNCHANGED <<nullsLow, resp, nick, sess>>

\* The response is sent; the worker takes the next request.
Finish(r) ==
    /\ reqs[r].pc = "done"
    /\ reqs' = [reqs EXCEPT ![r] = IdleReq]
    /\ UNCHANGED <<users, nullsLow, resp, nick, sess>>

InitReg ==
    /\ users = {}
    /\ nullsLow = TRUE
    /\ resp = NoResp
    /\ nick = NoNick
    /\ sess = NoSess
    /\ reqs = [r \in ReqIds |-> IdleReq]

NextReg ==
    \E r \in ReqIds :
        \/ CreateUserBegin(r)
        \/ CreateUserLookup(r)
        \/ CreateUserCreate(r)
        \/ RegisterBegin(r)
        \/ Register(r)
        \/ Finish(r)

SpecReg == InitReg /\ [][NextReg]_vars

\* C9 as claimed: no two rows have the same e-mail, and a request that ends
\* without having added its row was rejected with 'Email already exists',
\* however the requests interleave.
C9_UniqueAndRejected ==
    /\ \A u, v \in users : u.email = v.email => u = v
    /\ \A r \in ReqIds :
          reqs[r].pc = "done" =>
              \/ reqs[r].status \in {200, 201}
              \/ reqs[r].status = 400 /\ reqs[r].detail = "Email already exists"

----------------------------------------------------------------------------
(* POST /login/ (login). *)

\* UserService.is_account_locked: the account exists and is locked.
is_account_locked(db, email) == \E u \in db : u.email = email /\ u.is_locked

\* UserService.login_user: the user whose e-mail and password were given, or
\* no user (None).
login_user(db, email, password) ==
    {u \in db : u.email = email /\ u.password = password}

\* The table after login_user: a wrong password for a stored e-mail is one
\* more failed attempt, and too many of them lock the account.
after_login_user(db, email, password) ==
    {IF u.email = email /\ u.password # password
     THEN [u EXCEPT !.failed_login_attempts =
                        IF @ < MaxAttempts THEN @ + 1 ELSE @,
                    !.is_locked = @ \/ u.failed_login_attempts + 1 >= MaxAttempts]
     ELSE u : u \in db}

\* create_access_token(data={"sub": user.email, "role": str(user.role.name)})
create_access_token(u) == <<u.email, u.role>>

Accounts ==
    {User(1, <<"j", "o", "@", "x">>, <<"j", "o", "e">>, NULL, NULL, NULL,
          "AUTHENTICATED", 1)}

UsernameInputs == {<<"j", "o", "@", "x">>, <<"n", "o", "@", "x">>}
PasswordInputs == {<<"s">>, <<"w">>}

LockedDetail == "Account locked due to too many failed login attempts."

LoginBegin(r) ==
    /\ reqs[r].pc = "idle"
    /\ \E e \in UsernameInputs, p \in PasswordInputs :
          reqs' = [reqs EXCEPT ![r] = [IdleReq EXCEPT !.op = "login", !.pc = "lock_check",
                                                      !.email = e, !.password = p]]
    /\ UNCHANGED <<users, nullsLow, resp, nick, sess>>

LoginLockCheck_ignored(r) ==
    /\ reqs[r].op = "login" /\ reqs[r].pc = "lock_check"
    /\ reqs' = [reqs EXCEPT ![r] =
                  [@ EXCEPT !.pc = "credentials",
                            !.locked_seen = is_account_locked(users, reqs[r].email)]]
    /\ UNCHANGED <<users, nullsLow, resp, nick, sess>>

\* if await UserService.is_account_locked(session, form_data.username): raise 400
LoginLockCheck(r) ==
    /\ reqs[r].op = "login" /\ reqs[r].pc = "lock_check"
    /\ reqs' = [reqs EXCEPT ![r] =
                  IF is_account_locked(users, reqs[r].email)
                  THEN [Done(@, 400, LockedDetail) EXCEPT !.locked_seen = TRUE]
                  ELSE [@ EXCEPT !.pc = "credentials"]]
    /\ UNCHANGED <<users, nullsLow, resp, nick, sess>>

\* user = await UserService.login_user(...); 401 without a user, else a token.
LoginCredentials(r) ==
    /\ reqs[r].op = "login" /\ reqs[r].pc = "credentials"
    /\ LET found == login_user(users, reqs[r].email, reqs[r].password)
       IN  reqs' = [reqs EXCEPT ![r] =
                      IF found = {}
                      THEN Done(@, 401, "Incorrect email or password.")
                      ELSE [Done(@, 200, "") EXCEPT
                               !.token = create_access_token(CHOOSE u \in found : TRUE)]]
    /\ users' = after_login_user(users, reqs[r].email, reqs[r].password)
    /\ UNCHANGED <<nullsLow, resp, nick, sess>>

InitLogin ==
    /\ users = Accounts
    /\ nullsLow = TRUE
    /\ resp = NoResp
    /\ nick = NoNick
    /\ sess = NoSess
    /\ reqs = [r \in ReqIds |-> IdleReq]

NextLogin ==
    \E r \in ReqIds :
        \/ LoginBegin(r)
        \/ LoginLockCheck(r)
        \/ LoginCredentials(r)
        \/ Finish(r)

SpecLogin == InitLogin /\ [][NextLogin]_vars

\* C10: a login that found the account locked ends with the 'Account locked'
\* error and no token, whatever the password; a token is issued only to a
\* login whose lock check found the account not locked and whose e-mail and
\* password are those of a stored user, and it names that user.
C10_NoTokenWhenLocked ==
    \A r \in ReqIds :
        (reqs[r].op = "login" /\ reqs[r].pc \in {"credentials", "done"}) =>
            /\ reqs[r].locked_seen =>
                  /\ reqs[r].pc = "done"
                  /\ reqs[r].status = 400 /\ reqs[r].detail = LockedDetail
                  /\ reqs[r].token = NULL
            /\ reqs[r].token # NULL =>
                  /\ reqs[r].pc = "done" /\ reqs[r].status = 200
                  /\ ~reqs[r].locked_seen
                  /\ \E u \in users :
                        /\ u.email = reqs[r].email /\ u.password = reqs[r].password
                        /\ reqs[r].token = <<u.email, u.role>>
            /\ (reqs[r].pc = "done" /\ reqs[r].status = 200) => reqs[r].token # NULL

\* A login with the right password is refused because the account is locked,
\* while another login has been given a token.
C10_Witness ==
    \E r, t \in ReqIds :
        /\ reqs[r].pc = "done" /\ reqs[r].status = 400 /\ reqs[r].locked_seen
        /\ \E u \in users : u.email = reqs[r].email /\ u.password = reqs[r].password
        /\ reqs[t].pc = "done" /\ reqs[t].token # NULL

====
